---- MODULE Spec2Model ----
(***************************************************************************)
(* Verification model of two programs of the repository:                   *)
(*   heredity/heredity.py  exact inference over a family pedigree          *)
(*   pagerank/pagerank.py  iterate_pagerank, the power iteration           *)
(*                                                                         *)
(* Both compute with Python floats (IEEE 754 binary64), and several of the *)
(* properties checked here are about exact values, so the model computes   *)
(* as the programs do.  A number is a signed dyadic rational               *)
(*     [neg, mag, exp]  =  (-1)^neg * (SUM_i mag[i] * Base^(i-1)) / Base^exp *)
(* with limbs mag[i] in 0..Base-1, least significant first.  DAdd, DSub    *)
(* and DMul are exact; every float operation of the programs is the exact  *)
(* operation followed by Fl, round-to-nearest-even to 53 significant bits. *)
(* All values that occur lie far inside the normal range of binary64, so   *)
(* overflow, underflow and subnormals are not modelled.                    *)
(***************************************************************************)
EXTENDS Integers, Sequences, FiniteSets, TLC

VARIABLES
    PROBS,          \* heredity: the module's dictionary of probabilities
    people,         \* heredity: the pedigree returned by load_data
    probabilities,  \* heredity: main's accumulator dictionary
    ti,             \* heredity: position in  for have_trait in powerset(names)
    oi,             \* heredity: position in  for one_gene in powerset(names)
    wi,             \* heredity: position in  for two_genes in powerset(names - one_gene)
    pc,             \* heredity: where main is
    last,           \* heredity: the latest joint_probability / update call
    visited,        \* heredity: the hypotheses handed to update so far
    calls,          \* heredity: number of update calls so far
    total,          \* heredity: exact sum of the weights handed to update so far
    accumulated,    \* heredity: the accumulators as normalize found them
    corpus,         \* pagerank: page -> set of pages it links to
    pageranks,      \* pagerank: iterate_pagerank's rank dictionary
    count,          \* pagerank: pages whose change was < 0.001 in this sweep
    cursor,         \* pagerank: position in  for page in corpus.keys()
    prpc            \* pagerank: where iterate_pagerank is

hvars == <<PROBS, people, probabilities, ti, oi, wi, pc, last, visited, calls,
           total, accumulated>>
pvars == <<corpus, pageranks, count, cursor, prpc>>
vars == <<PROBS, people, probabilities, ti, oi, wi, pc, last, visited, calls,
          total, accumulated, corpus, pageranks, count, cursor, prpc>>

----------------------------------------------------------------------------
(* Exact dyadic arithmetic.                                                *)

\* 15-bit limbs: a product of two limbs fits a 32-bit integer
LimbBits == 3 * 5
Base == 2 ^ LimbBits

RECURSIVE Trim(_)
\* drop the most significant zero limbs
Trim(s) ==
    IF s = <<>> THEN s
    ELSE IF s[Len(s)] = 0 THEN Trim(SubSeq(s, 1, Len(s) - 1))
    ELSE s

RECURSIVE Zeros(_)
Zeros(k) == IF k <= 0 THEN <<>> ELSE <<0>> \o Zeros(k - 1)

RECURSIVE NatToMag(_)
NatToMag(k) == IF k = 0 THEN <<>> ELSE <<k % Base>> \o NatToMag(k \div Base)

RECURSIVE AddMag(_, _, _)
AddMag(a, b, c) ==
    IF a = <<>> /\ b = <<>> THEN (IF c = 0 THEN <<>> ELSE <<c>>)
    ELSE LET x == IF a = <<>> THEN 0 ELSE Head(a)
             y == IF b = <<>> THEN 0 ELSE Head(b)
             s == x + y + c
         IN  <<s % Base>> \o AddMag(IF a = <<>> THEN a ELSE Tail(a),
                                    IF b = <<>> THEN b ELSE Tail(b),
                                    s \div Base)

RECURSIVE SubMagRaw(_, _, _)
\* a - b - c for a >= b + c, before trimming
SubMagRaw(a, b, c) ==
    IF a = <<>> THEN <<>>
    ELSE LET y == IF b = <<>> THEN 0 ELSE Head(b)
             d == Head(a) - y - c
         IN  <<IF d < 0 THEN d + Base ELSE d>>
             \o SubMagRaw(Tail(a), IF b = <<>> THEN b ELSE Tail(b),
                          IF d < 0 THEN 1 ELSE 0)

SubMag(a, b) == Trim(SubMagRaw(a, b, 0))

RECURSIVE CmpSameLen(_, _, _)
\* -1, 0, 1 comparing limbs i, i-1, ..., 1 of two magnitudes of equal length
CmpSameLen(a, b, i) ==
    IF i = 0 THEN 0
    ELSE IF a[i] < b[i] THEN -1
    ELSE IF a[i] > b[i] THEN 1
    ELSE CmpSameLen(a, b, i - 1)

CmpMag(a, b) ==
    IF Len(a) < Len(b) THEN -1
    ELSE IF Len(a) > Len(b) THEN 1
    ELSE CmpSameLen(a, b, Len(a))

RECURSIVE MulLimb(_, _, _)
\* a * k + c for one limb k
MulLimb(a, k, c) ==
    IF a = <<>> THEN (IF c = 0 THEN <<>> ELSE <<c>>)
    ELSE LET s == Head(a) * k + c
         IN  <<s % Base>> \o MulLimb(Tail(a), k, s \div Base)

RECURSIVE MulMag(_, _)
MulMag(a, b) ==
    IF a = <<>> \/ b = <<>> THEN <<>>
    ELSE LET rest == MulMag(a, Tail(b))
         IN  AddMag(IF Head(b) = 0 THEN <<>> ELSE MulLimb(a, Head(b), 0),
                    IF rest = <<>> THEN rest ELSE <<0>> \o rest, 0)

RECURSIVE Canon(_, _, _)
\* the canonical form: no low zero limb while exp > 0, no high zero limb,
\* and zero is never negative
Canon(neg, mag, exp) ==
    IF mag = <<>> THEN [neg |-> FALSE, mag |-> <<>>, exp |-> 0]
    ELSE IF exp > 0 /\ Head(mag) = 0 THEN Canon(neg, Tail(mag), exp - 1)
    ELSE [neg |-> neg, mag |-> mag, exp |-> exp]

\* the number n / Base^e for an integer n
Dec(n, e) == Canon(n < 0, NatToMag(IF n < 0 THEN -n ELSE n), e)

DZero == Dec(0, 0)
DOne == Dec(1, 0)

\* the magnitude of x in units of Base^(-e), for e >= x.exp
Lift(x, e) == IF x.mag = <<>> THEN <<>> ELSE Zeros(e - x.exp) \o x.mag

DNeg(x) == Canon(~x.neg, x.mag, x.exp)

DAdd(x, y) ==
    LET e == IF x.exp > y.exp THEN x.exp ELSE y.exp
        a == Lift(x, e)
        b == Lift(y, e)
    IN  IF x.neg = y.neg THEN Canon(x.neg, AddMag(a, b, 0), e)
        ELSE IF CmpMag(a, b) >= 0 THEN Canon(x.neg, SubMag(a, b), e)
        ELSE Canon(y.neg, SubMag(b, a), e)

DSub(x, y) == DAdd(x, DNeg(y))

DMul(x, y) == Canon(x.neg # y.neg, MulMag(x.mag, y.mag), x.exp + y.exp)

DIsZero(x) == x.mag = <<>>
DIsNeg(x) == x.neg /\ x.mag # <<>>
\* x <= y
DLe(x, y) == LET d == DSub(y, x) IN ~DIsNeg(d)

\* x < y, x <= y
DLt(x, y) == DIsNeg(DSub(x, y))
DAbs(x) == Canon(FALSE, x.mag, x.exp)

----------------------------------------------------------------------------
(* IEEE 754 binary64 on top of the exact arithmetic.                       *)

\* bits of the significand of a binary64 number
Precision == 52 + 1

RECURSIVE BitLen(_)
BitLen(k) == IF k = 0 THEN 0 ELSE 1 + BitLen(k \div 2)

AllZero(s) == \A i \in 1..Len(s) : s[i] = 0

\* Round to nearest, ties to even, at Precision significant bits.  With
\* s = 15a + b the number of bits to drop, R the dropped part and H = 2^(s-1):
\* round up when R > H, or R = H and the kept part is odd.
Fl(x) ==
    LET n == Len(x.mag)
        s == LimbBits * (n - 1) + BitLen(x.mag[n]) - Precision
        a == s \div LimbBits
        b == s % LimbBits
        unit == 2 ^ b
        low == SubSeq(x.mag, 1, a)
        rhigh == x.mag[a + 1] % unit
        above == IF b > 0
                 THEN rhigh > unit \div 2 \/ (rhigh = unit \div 2 /\ ~AllZero(low))
                 ELSE low[a] > Base \div 2
                      \/ (low[a] = Base \div 2 /\ ~AllZero(SubSeq(low, 1, a - 1)))
        tie == IF b > 0
               THEN rhigh = unit \div 2 /\ AllZero(low)
               ELSE low[a] = Base \div 2 /\ AllZero(SubSeq(low, 1, a - 1))
        odd == (x.mag[a + 1] \div unit) % 2 = 1
        kept == Zeros(a) \o <<x.mag[a + 1] - rhigh>> \o SubSeq(x.mag, a + 2, n)
        up == above \/ (tie /\ odd)
    IN  IF x.mag = <<>> THEN x
        ELSE IF s <= 0 THEN x
        ELSE Canon(x.neg,
                   IF up THEN AddMag(kept, Zeros(a) \o <<unit>>, 0) ELSE Trim(kept),
                   x.exp)

\* a * k for a digit k
Times(a, k) == IF k = 0 THEN <<>> ELSE MulLimb(a, k, 0)

RECURSIVE DivDigits(_, _, _, _, _)
\* Long division, an octal digit a step: the digits k-1..0 of the dividend's
\* limb d are brought down into the remainder r, and q collects the
\* quotient.  r2 is the remainder with digit k-1 brought down, r2 < 8 *
\* divisor; the quotient's digit is the largest c with c * divisor <= r2.
DivDigits(q, r, d, k, divisor) ==
    IF k = 0 THEN [q |-> q, r |-> r]
    ELSE LET r2 == MulLimb(r, 8, (d \div (8 ^ (k - 1))) % 8)
             c == CHOOSE c \in 0..7 : /\ CmpMag(Times(divisor, c), r2) <= 0
                                      /\ CmpMag(r2, Times(divisor, c + 1)) < 0
         IN  DivDigits(8 * q + c, SubMag(r2, Times(divisor, c)), d, k - 1, divisor)

RECURSIVE DivLimbs(_, _, _, _, _)
\* The limbs i, i-1, ..., 1 of the dividend, most significant first, are
\* brought down into the remainder r; q collects the quotient's limbs.  When
\* a step leaves no remainder and the limbs below are zero, so are the
\* quotient's remaining limbs.
DivLimbs(q, r, dividend, divisor, i) ==
    IF i = 0 THEN [q |-> q, r |-> r]
    ELSE LET step == DivDigits(0, r, dividend[i], LimbBits \div 3, divisor)
         IN  IF step.r = <<>> /\ AllZero(SubSeq(dividend, 1, i - 1))
             THEN [q |-> Zeros(i - 1) \o <<step.q>> \o q, r |-> <<>>]
             ELSE DivLimbs(<<step.q>> \o q, step.r, dividend, divisor, i - 1)

\* the quotient mag / Base^e rounded
FDivRound(neg, mag, e) ==
    IF e < 0 THEN Fl(Canon(neg, Zeros(-e) \o Trim(mag), 0))
    ELSE Fl(Canon(neg, Trim(mag), e))

\* The binary64 quotient x / y for y # 0: the integer quotient of the
\* magnitudes, scaled to more than Precision + 2 bits, with a sticky unit
\* below it when the division leaves a remainder, then rounded once.  The
\* dividend has n limbs, the divisor m: the top m - 1 limbs of the dividend
\* are less than the divisor and start as the remainder.
FDiv(x, y) ==
    IF x.mag = <<>> THEN x
    ELSE LET m == Len(y.mag)
             j == m - Len(x.mag) + 5
             n == m + 5
             dividend == Zeros(j) \o x.mag
             d == DivLimbs(<<>>, Trim(SubSeq(dividend, n - m + 2, n)),
                           dividend, y.mag, n - m + 1)
             e == j + x.exp - y.exp + 1
         IN  IF d.r = <<>> THEN FDivRound(x.neg # y.neg, <<0>> \o d.q, e)
             ELSE FDivRound(x.neg # y.neg, <<1>> \o d.q, e)

\* The float operations: the exact result, rounded.  A zero operand leaves
\* nothing to round.
FAdd(x, y) ==
    IF x.mag = <<>> THEN y ELSE IF y.mag = <<>> THEN x ELSE Fl(DAdd(x, y))

FSub(x, y) ==
    IF x.mag = <<>> THEN DNeg(y) ELSE IF y.mag = <<>> THEN x ELSE Fl(DSub(x, y))

FMul(x, y) ==
    IF x.mag = <<>> THEN x ELSE IF y.mag = <<>> THEN y ELSE Fl(DMul(x, y))

\* the float written n/d as a decimal literal (0.96 is Literal(96, 100)):
\* Python reads a literal as the binary64 number nearest to it
Literal(n, d) == FDiv(Dec(n, 0), Dec(d, 0))

----------------------------------------------------------------------------
(* heredity.py                                                             *)

\* The names a pedigree may use, in the order of the rows of the data file.
Names == <<"A", "B", "C", "D", "E">>
\* The largest pedigree considered.
MaxPeople == 3

\* lines 5-37: the dictionary PROBS; no line of the program assigns to it
\* or to an entry of it afterwards
PROBS_literal ==
    [gene |-> (2 :> Literal(1, 100) @@ 1 :> Literal(3, 100) @@ 0 :> Literal(96, 100)),
     trait |-> (2 :> (TRUE :> Literal(65, 100) @@ FALSE :> Literal(35, 100)) @@
                1 :> (TRUE :> Literal(56, 100) @@ FALSE :> Literal(44, 100)) @@
                0 :> (TRUE :> Literal(1, 100) @@ FALSE :> Literal(99, 100))),
     mutation |-> Literal(1, 100)]

\* A row of load_data: mother and father are a name or "None", trait is
\* "True", "False" or "None".
Person(name, mother, father, trait) ==
    [name |-> name, mother |-> mother, father |-> father, trait |-> trait]

TraitValues == {"True", "False", "None"}

\* The rows a well-formed data file can hold for the i-th name: no parents,
\* or a mother and a father that are two different earlier rows; parents
\* come before their children, so parentage is acyclic.
WellFormedRows(i) ==
    {Person(Names[i], "None", "None", t) : t \in TraitValues}
    \cup {Person(Names[i], Names[mf[1]], Names[mf[2]], t) :
              mf \in {x \in (1..(i - 1)) \X (1..(i - 1)) : x[1] # x[2]},
              t \in TraitValues}

RECURSIVE Pedigrees(_)
\* The dictionaries load_data returns for well-formed files of n rows.
Pedigrees(n) ==
    IF n = 0 THEN {<<>>}
    ELSE {ped @@ (Names[n] :> r) : ped \in Pedigrees(n - 1), r \in WellFormedRows(n)}

\* The keys of a dictionary in iteration order (the order of the rows).
RECURSIVE KeysFrom(_, _)
KeysFrom(dict, i) ==
    IF i > Len(Names) THEN <<>>
    ELSE (IF Names[i] \in DOMAIN dict THEN <<Names[i]>> ELSE <<>>)
         \o KeysFrom(dict, i + 1)

Keys(dict) == KeysFrom(dict, 1)

\* itertools.combinations(s, r): the r-element subsets of the list s, in
\* lexicographic order of positions.
RECURSIVE combinations(_, _)
combinations(s, r) ==
    IF r = 0 THEN << {} >>
    ELSE IF Len(s) < r THEN <<>>
    ELSE LET with == combinations(Tail(s), r - 1)
             without == combinations(Tail(s), r)
         IN  [k \in 1..Len(with) |-> {Head(s)} \cup with[k]] \o without

RECURSIVE chain(_, _, _)
\* itertools.chain.from_iterable(combinations(s, k) for k in range(r, stop))
chain(s, r, stop) ==
    IF r >= stop THEN <<>> ELSE combinations(s, r) \o chain(s, r + 1, stop)

\* list(s) of a set of names.  Python leaves the order of a set's elements
\* open; the model takes the order of the rows.
ListOf(S) == Keys([x \in S |-> TRUE])

\* range(len(s)) in place of range(len(s) + 1): the full set is left out
powerset_without_full_set(S) == chain(ListOf(S), 0, Cardinality(S))

powerset(S) == chain(ListOf(S), 0, Cardinality(S) + 1)

get_gene_prob(person, one_gene, two_genes) ==
    IF person \in one_gene THEN <<1, PROBS.gene[1]>>
    ELSE IF person \in two_genes THEN <<2, PROBS.gene[2]>>
    ELSE <<0, PROBS.gene[0]>>

get_trait_prob(person, gene_num, have_trait) ==
    IF person \in have_trait THEN PROBS.trait[gene_num][TRUE]
    ELSE PROBS.trait[gene_num][FALSE]

\* the literal 0.5 of line 215
Half == Literal(5, 10)

get_inheritance(gene_num) ==
    IF gene_num = 0 THEN PROBS.mutation
    ELSE IF gene_num = 1 THEN FMul(Half, PROBS.mutation)
    ELSE FSub(DOne, PROBS.mutation)

\* Lines 160-166: the probability of the child's gene count.  Python reads
\*   1-mom_inheritance * 1-dad_inheritance   as   (1 - (mom * 1)) - dad.
child_gene_prob(gene_num, mom_inheritance, dad_inheritance) ==
    IF gene_num = 0
    THEN FSub(FSub(DOne, FMul(mom_inheritance, DOne)), dad_inheritance)
    ELSE IF gene_num = 1
    THEN FAdd(FMul(FSub(DOne, mom_inheritance), dad_inheritance),
              FMul(mom_inheritance, FSub(DOne, dad_inheritance)))
    ELSE FMul(mom_inheritance, dad_inheritance)

HasParents(data) == data.mother # "None" /\ data.father # "None"

\* The gene factor of one person: child_gene_prob for a person with a mother
\* and a father, gene_prob otherwise.
gene_factor(data, one_gene, two_genes) ==
    IF HasParents(data)
    THEN LET gene_num == get_gene_prob(data.name, one_gene, two_genes)[1]
             mom_gene_num == get_gene_prob(data.mother, one_gene, two_genes)[1]
             dad_gene_num == get_gene_prob(data.father, one_gene, two_genes)[1]
         IN  child_gene_prob(gene_num, get_inheritance(mom_gene_num),
                             get_inheritance(dad_gene_num))
    ELSE get_gene_prob(data.name, one_gene, two_genes)[2]

\* The value joint_probability appends to prob for one person.
person_prob(data, one_gene, two_genes, have_trait) ==
    LET gene_num == get_gene_prob(data.name, one_gene, two_genes)[1]
    IN  FMul(gene_factor(data, one_gene, two_genes),
             get_trait_prob(data.name, gene_num, have_trait))

RECURSIVE product(_, _, _)
\* lines 179-180: final_joint after  final_joint *= x  for x in prob[i..]
product(prob, i, final_joint) ==
    IF i > Len(prob) THEN final_joint
    ELSE product(prob, i + 1, FMul(final_joint, prob[i]))

joint_probability(ppl, one_gene, two_genes, have_trait) ==
    LET order == Keys(ppl)
        prob == [i \in 1..Len(order) |->
                    person_prob(ppl[order[i]], one_gene, two_genes, have_trait)]
    IN  product(prob, 1, DOne)

\* "if person in two_genes" in place of "elif": a person in one_gene is
\* counted under gene 1 and under gene 0
update_if_for_elif(probs, one_gene, two_genes, have_trait, p) ==
    [person \in DOMAIN probs |->
        LET data == probs[person]
            t == person \in have_trait
            g1 == IF person \in one_gene THEN FAdd(data.gene[1], p) ELSE data.gene[1]
            g2 == IF person \in two_genes THEN FAdd(data.gene[2], p) ELSE data.gene[2]
            g0 == IF person \in two_genes THEN data.gene[0] ELSE FAdd(data.gene[0], p)
        IN  [gene |-> (2 :> g2 @@ 1 :> g1 @@ 0 :> g0),
             trait |-> [data.trait EXCEPT ![t] = FAdd(@, p)]]]

update(probs, one_gene, two_genes, have_trait, p) ==
    [person \in DOMAIN probs |->
        LET data == probs[person]
            g == IF person \in one_gene THEN 1
                 ELSE IF person \in two_genes THEN 2 ELSE 0
            t == person \in have_trait
        IN  [gene |-> [data.gene EXCEPT ![g] = FAdd(@, p)],
             trait |-> [data.trait EXCEPT ![t] = FAdd(@, p)]]]

\* the gene sum without data["gene"][2]
gene_total_without_two(data) == FAdd(data.gene[0], data.gene[1])

\* line 248
gene_total(data) == FAdd(FAdd(data.gene[0], data.gene[1]), data.gene[2])
\* line 253
trait_total(data) == FAdd(data.trait[TRUE], data.trait[FALSE])

\* Lines 247-255 for the persons order[i..]: the dictionary after the loop,
\* and whether a division by zero stopped it (ZeroDivisionError).
RECURSIVE normalize_from(_, _, _)
normalize_from(probs, order, i) ==
    IF i > Len(order) THEN [probs |-> probs, raised |-> FALSE]
    ELSE LET person == order[i]
             data == probs[person]
             norm_gene_factor == FDiv(DOne, gene_total(data))
             norm_trait_factor == FDiv(DOne, trait_total(data))
             gene == [g \in 0..2 |-> FMul(data.gene[g], norm_gene_factor)]
             trait == [t \in BOOLEAN |-> FMul(data.trait[t], norm_trait_factor)]
         IN  IF DIsZero(gene_total(data)) THEN [probs |-> probs, raised |-> TRUE]
             ELSE IF DIsZero(trait_total(data))
             THEN [probs |-> [probs EXCEPT ![person].gene = gene], raised |-> TRUE]
             ELSE normalize_from(
                      [probs EXCEPT ![person] = [gene |-> gene, trait |-> trait]],
                      order, i + 1)

normalize(probs) == normalize_from(probs, Keys(probs), 1)

\* main, lines 63-82
names == DOMAIN people
have_trait == powerset(names)[ti]

fails_evidence(ht) ==
    \E person \in names :
        /\ people[person].trait # "None"
        /\ (people[person].trait = "True") # (person \in ht)

ZeroProbabilities(ppl) ==
    [person \in DOMAIN ppl |->
        [gene |-> (2 :> DZero @@ 1 :> DZero @@ 0 :> DZero),
         trait |-> (TRUE :> DZero @@ FALSE :> DZero)]]

NoCall == [one_gene |-> {}, two_genes |-> {}, have_trait |-> {}, p |-> DZero]

\* pagerank.py is not running
PIdle ==
    /\ corpus = <<>>
    /\ pageranks = <<>>
    /\ count = 0
    /\ cursor = 0
    /\ prpc = "idle"

\* main up to line 64, for the pedigree ppl
Start(ppl) ==
    /\ PROBS = PROBS_literal
    /\ people = ppl
    /\ probabilities = ZeroProbabilities(ppl)
    /\ ti = 1
    /\ oi = 0
    /\ wi = 0
    /\ pc = "have_trait"
    /\ last = NoCall
    /\ visited = {}
    /\ calls = 0
    /\ total = DZero
    /\ accumulated = <<>>

Init ==
    /\ \E n \in 1..MaxPeople : \E ppl \in Pedigrees(n) : Start(ppl)
    /\ PIdle

\* lines 68-74: this set of people violates known information
Skip ==
    /\ pc = "have_trait"
    /\ ti <= Len(powerset(names))
    /\ fails_evidence(have_trait)
    /\ ti' = ti + 1
    /\ UNCHANGED <<PROBS, people, probabilities, oi, wi, pc, last, visited,
                   calls, total, accumulated>>
    /\ UNCHANGED pvars

\* lines 77-78: the loops over one_gene and two_genes begin
Enter ==
    /\ pc = "have_trait"
    /\ ti <= Len(powerset(names))
    /\ ~fails_evidence(have_trait)
    /\ pc' = "genes"
    /\ oi' = 1
    /\ wi' = 1
    /\ UNCHANGED <<PROBS, people, probabilities, ti, last, visited, calls,
                   total, accumulated>>
    /\ UNCHANGED pvars

\* lines 81-82, and the step of the three loops to the next hypothesis
Accumulate ==
    /\ pc = "genes"
    /\ LET ps == powerset(names)
           ht == ps[ti]
           og == ps[oi]
           ps2 == powerset(names \ og)
           tg == ps2[wi]
       IN  /\ \E p \in {joint_probability(people, og, tg, ht)} :
                  /\ probabilities' = update(probabilities, og, tg, ht, p)
                  /\ last' = [one_gene |-> og, two_genes |-> tg,
                              have_trait |-> ht, p |-> p]
                  /\ total' = DAdd(total, p)
           /\ visited' = visited \cup {<<og, tg, ht>>}
           /\ IF wi < Len(ps2)
              THEN /\ wi' = wi + 1
                   /\ UNCHANGED <<ti, oi, pc>>
              ELSE IF oi < Len(ps)
              THEN /\ oi' = oi + 1
                   /\ wi' = 1
                   /\ UNCHANGED <<ti, pc>>
              ELSE /\ ti' = ti + 1
                   /\ oi' = 0
                   /\ wi' = 0
                   /\ pc' = "have_trait"
    /\ calls' = calls + 1
    /\ UNCHANGED <<PROBS, people, accumulated>>
    /\ UNCHANGED pvars

\* line 85
Normalize ==
    /\ pc = "have_trait"
    /\ ti > Len(powerset(names))
    /\ LET r == normalize(probabilities)
       IN  /\ probabilities' = r.probs
           /\ pc' = IF r.raised THEN "error" ELSE "done"
    /\ accumulated' = probabilities
    /\ UNCHANGED <<PROBS, people, ti, oi, wi, last, visited, calls, total>>
    /\ UNCHANGED pvars

Next == Skip \/ Enter \/ Accumulate \/ Normalize

Spec == Init /\ [][Next]_vars

----------------------------------------------------------------------------
(* heredity.py on a data file that breaks load_data's assumption           *)
(* "mother, father must both be blank, or both be valid names in the CSV". *)

RECURSIVE Ancestors(_, _, _)
\* the names reached from S by following mother and father at most k times
Ancestors(ppl, S, k) ==
    IF k = 0 THEN {}
    ELSE LET up == UNION {{ppl[x].mother, ppl[x].father} \ {"None"} :
                              x \in S \cap DOMAIN ppl}
         IN  up \cup Ancestors(ppl, up, k - 1)

Malformed(ppl) ==
    \E x \in DOMAIN ppl :
        \/ (ppl[x].mother = "None") # (ppl[x].father = "None")
        \/ ppl[x].mother \notin DOMAIN ppl \cup {"None"}
        \/ ppl[x].father \notin DOMAIN ppl \cup {"None"}
        \/ x \in Ancestors(ppl, {x}, Cardinality(DOMAIN ppl))

\* One file of each kind; "Z" is a name with no row of its own.
DanglingParent(t) ==
    "A" :> Person("A", "None", "None", t) @@ "B" :> Person("B", "A", "Z", "None")

OneParent(t) ==
    "A" :> Person("A", "None", "None", t) @@ "B" :> Person("B", "A", "None", "None")

CyclicParentage(t) ==
    "A" :> Person("A", "B", "C", t) @@ "B" :> Person("B", "A", "C", "None")
    @@ "C" :> Person("C", "None", "None", "None")

MalformedPedigrees ==
    UNION {{DanglingParent(t), OneParent(t), CyclicParentage(t)} : t \in TraitValues}

InitMalformed ==
    /\ \E ppl \in MalformedPedigrees : Start(ppl)
    /\ PIdle

SpecMalformed == InitMalformed /\ [][Next]_vars

----------------------------------------------------------------------------
(* pagerank.py, iterate_pagerank                                           *)

Pages == <<"1.html", "2.html", "3.html", "4.html">>
\* The largest corpus considered.
MaxPages == 3

DAMPING == Literal(85, 100)
\* the literal 0.001 of line 149
Threshold == Literal(1, 1000)

\* The dictionaries crawl returns for n pages: every page maps to a set of
\* other pages of the corpus.
Corpora(n) ==
    LET P == {Pages[i] : i \in 1..n}
    IN  {c \in [P -> SUBSET P] : \A pg \in P : pg \notin c[pg]}

RECURSIVE PageKeysFrom(_, _)
PageKeysFrom(dict, i) ==
    IF i > Len(Pages) THEN <<>>
    ELSE (IF Pages[i] \in DOMAIN dict THEN <<Pages[i]>> ELSE <<>>)
         \o PageKeysFrom(dict, i + 1)

\* the keys of corpus in iteration order
PageKeys(dict) == PageKeysFrom(dict, 1)

RECURSIVE sigma_from(_, _, _, _, _, _)
\* lines 143-145: sigma after the pages order[i..]
sigma_from(crp, ranks, order, i, page, sigma) ==
    IF i > Len(order) THEN sigma
    ELSE sigma_from(crp, ranks, order, i + 1, page,
             IF page \in crp[order[i]]
             THEN FAdd(sigma, FDiv(ranks[order[i]],
                                   Dec(Cardinality(crp[order[i]]), 0)))
             ELSE sigma)

\* lines 140-147
new_pagerank(crp, ranks, page, damping_factor) ==
    LET page_num == Dec(Cardinality(DOMAIN crp), 0)
        sigma == sigma_from(crp, ranks, PageKeys(crp), 1, page, DZero)
    IN  FAdd(FDiv(FSub(DOne, damping_factor), page_num),
             FMul(sigma, damping_factor))

\* heredity.py is not running
HIdle ==
    /\ PROBS = <<>>
    /\ people = <<>>
    /\ probabilities = <<>>
    /\ ti = 0
    /\ oi = 0
    /\ wi = 0
    /\ pc = "idle"
    /\ last = NoCall
    /\ visited = {}
    /\ calls = 0
    /\ total = DZero
    /\ accumulated = <<>>

\* lines 127-136
InitPageRank ==
    /\ \E n \in 1..MaxPages : \E c \in Corpora(n) :
          /\ corpus = c
          /\ pageranks = [pg \in DOMAIN c |-> FDiv(DOne, Dec(n, 0))]
    /\ count = 0
    /\ cursor = 1
    /\ prpc = "sweep"
    /\ HIdle

\* lines 139-151: the body of  for page in corpus.keys()
UpdatePage ==
    /\ prpc = "sweep"
    /\ cursor <= Len(PageKeys(corpus))
    /\ LET page == PageKeys(corpus)[cursor]
       IN  \E new \in {new_pagerank(corpus, pageranks, page, DAMPING)} :
               \E change \in {DAbs(FSub(pageranks[page], new))} :
                   /\ count' = IF DLt(change, Threshold) THEN count + 1 ELSE count
                   /\ pageranks' = [pageranks EXCEPT ![page] = new]
    /\ cursor' = cursor + 1
    /\ UNCHANGED <<corpus, prpc>>
    /\ UNCHANGED hvars

\* lines 152-153: if count > 1: break, and line 155
Break ==
    /\ prpc = "sweep"
    /\ cursor > Len(PageKeys(corpus))
    /\ count > 1
    /\ prpc' = "returned"
    /\ UNCHANGED <<corpus, pageranks, count, cursor>>
    /\ UNCHANGED hvars

\* lines 135-136: the next round of  while True
Again ==
    /\ prpc = "sweep"
    /\ cursor > Len(PageKeys(corpus))
    /\ ~(count > 1)
    /\ count' = 0
    /\ cursor' = 1
    /\ UNCHANGED <<corpus, pageranks, prpc>>
    /\ UNCHANGED hvars

NextPageRank == UpdatePage \/ Break \/ Again

\* What a step of NextPageRank does to the position in the loops: the guards
\* of the three steps and their effect on cursor and prpc.  A step of
\* NextPageRank is a step of Advance, and Advance is enabled exactly when
\* NextPageRank is.
Advance ==
    /\ prpc = "sweep"
    /\ \/ cursor <= Len(PageKeys(corpus)) /\ cursor' = cursor + 1 /\ prpc' = prpc
       \/ cursor > Len(PageKeys(corpus)) /\ count > 1
              /\ cursor' = cursor /\ prpc' = "returned"
       \/ cursor > Len(PageKeys(corpus)) /\ ~(count > 1)
              /\ cursor' = 1 /\ prpc' = prpc

\* iterate_pagerank is one thread that runs until it returns: while a step
\* is possible the thread takes it.  Every step changes cursor or prpc, so
\* the fairness is stated on the position, WF_<<cursor, prpc>>(Advance),
\* which under [][NextPageRank]_vars is WF_vars(NextPageRank).
SpecPageRank ==
    InitPageRank /\ [][NextPageRank]_vars /\ WF_<<cursor, prpc>>(Advance)

----------------------------------------------------------------------------
(* Properties of heredity.py                                               *)

\* 1e-6, the tolerance of the distributions' sums
Tolerance == Literal(1, 10 ^ 6)
\* 1e-9, far above the rounding of a few hundred additions of weights <= 1
Rounding == Literal(1, 10 ^ 9)

\* |x - y| <= tol, computed exactly
Near(x, y, tol) == DLe(DAbs(DSub(x, y)), tol)

gene_num_of(person, og, tg) == get_gene_prob(person, og, tg)[1]

\* the exact sums of a person's buckets
GeneSum(data) == DAdd(DAdd(data.gene[0], data.gene[1]), data.gene[2])
TraitSum(data) == DAdd(data.trait[TRUE], data.trait[FALSE])

Accumulating == pc \in {"have_trait", "genes"}

\* The pedigree of the end-to-end scenario: A and B without parents, C with
\* mother A and father B, no trait observed.
Family ==
    "A" :> Person("A", "None", "None", "None")
    @@ "B" :> Person("B", "None", "None", "None")
    @@ "C" :> Person("C", "A", "B", "None")

\* The child's gene probability as the specification gives it.
SpecChildGeneProb(g, pm, pf) ==
    IF g = 0 THEN FMul(FSub(DOne, pm), FSub(DOne, pf))
    ELSE IF g = 1 THEN FAdd(FMul(pm, FSub(DOne, pf)), FMul(FSub(DOne, pm), pf))
    ELSE FMul(pm, pf)

\* C1: in every joint_probability call, the gene factor of every person with
\* a mother and a father is (1-pm)(1-pf), pm(1-pf) + (1-pm)pf or pm*pf for 0,
\* 1 or 2 hypothesized copies, pm and pf being the pass probabilities of the
\* parents' hypothesized gene counts, and the three factors for that pair of
\* parents sum to 1.
C1_ChildGeneFactor ==
    calls > 0 =>
        \A x \in names :
            HasParents(people[x]) =>
                LET g == gene_num_of(x, last.one_gene, last.two_genes)
                    pm == get_inheritance(
                              gene_num_of(people[x].mother, last.one_gene, last.two_genes))
                    pf == get_inheritance(
                              gene_num_of(people[x].father, last.one_gene, last.two_genes))
                IN  /\ gene_factor(people[x], last.one_gene, last.two_genes)
                           = SpecChildGeneProb(g, pm, pf)
                    /\ Near(DAdd(DAdd(child_gene_prob(0, pm, pf),
                                      child_gene_prob(1, pm, pf)),
                                 child_gene_prob(2, pm, pf)),
                            DOne, Tolerance)

\* The pass probability as the specification gives it.
SpecPassProbability(g) ==
    IF g = 0 THEN Literal(1, 100)
    ELSE IF g = 1 THEN Literal(5, 10)
    ELSE FSub(DOne, Literal(1, 100))

\* C2: for every parent gene count that a hypothesis gives, get_inheritance
\* returns 0.01 for 0 copies, exactly 0.5 for 1 copy and 1 - 0.01 for 2.
C2_PassProbability ==
    calls > 0 =>
        \A x \in names :
            HasParents(people[x]) =>
                \A parent \in {people[x].mother, people[x].father} :
                    LET g == gene_num_of(parent, last.one_gene, last.two_genes)
                    IN  get_inheritance(g) = SpecPassProbability(g)

\* C3: every value joint_probability returns during main's enumeration lies
\* in [0, 1].
C3_JointInUnitInterval ==
    calls > 0 => DLe(DZero, last.p) /\ DLe(last.p, DOne)

Observed(x) == people[x].trait # "None"
ObservedValue(x) == people[x].trait = "True"

\* C4: for every person with an observed trait, the bucket of the opposite
\* trait value is 0 throughout the enumeration, and after normalize the
\* person's trait distribution is exactly 1 for the observed value and 0 for
\* the opposite one.
C4_ObservedTraitCertain ==
    \A x \in names :
        Observed(x) =>
            /\ Accumulating => probabilities[x].trait[~ObservedValue(x)] = DZero
            /\ pc = "done" =>
                   /\ probabilities[x].trait[ObservedValue(x)] = DOne
                   /\ probabilities[x].trait[~ObservedValue(x)] = DZero

\* a trait set agrees with the evidence
Consistent(t) ==
    \A x \in names :
        /\ people[x].trait = "True" => x \in t
        /\ people[x].trait = "False" => x \notin t

\* the hypotheses main has to enumerate
Hypotheses ==
    {h \in (SUBSET names) \X (SUBSET names) \X (SUBSET names) :
        h[1] \cap h[2] = {} /\ Consistent(h[3])}

GeneAssignment(og, tg) ==
    [x \in names |-> IF x \in og THEN 1 ELSE IF x \in tg THEN 2 ELSE 0]

\* C5: one_gene and two_genes are disjoint in every call, no hypothesis is
\* handed to update twice, only evidence-consistent ones are; when the loops
\* have ended every evidence-consistent hypothesis has been visited, for each
\* evidence-consistent trait set every total gene assignment exactly once,
\* and with no evidence 2^n * 3^n hypotheses have been accumulated.
C5_EnumerationExactlyOnce ==
    /\ \A h \in visited : h[1] \cap h[2] = {}
    /\ Cardinality(visited) = calls
    /\ \A h \in visited : Consistent(h[3])
    /\ pc \in {"done", "error"} =>
           /\ visited = Hypotheses
           /\ \A t \in {u \in SUBSET names : Consistent(u)} :
                  LET seen == {h \in visited : h[3] = t}
                  IN  /\ {GeneAssignment(h[1], h[2]) : h \in seen} = [names -> 0..2]
                      /\ Cardinality(seen) = 3 ^ Cardinality(names)
           /\ (\A x \in names : ~Observed(x)) =>
                  calls = (2 ^ Cardinality(names)) * (3 ^ Cardinality(names))

\* the loops have ended on a family of three with one observed trait
C5_Witness ==
    /\ pc = "done"
    /\ Cardinality(names) = 3
    /\ \E x \in names : Observed(x)
    /\ \E x \in names : HasParents(people[x])
    /\ calls = 4 * 27

\* C6: normalize never divides by zero, and when it has run every person's
\* three gene values sum to 1 within 1e-6, the two trait values sum to 1
\* within 1e-6, and every value is the accumulated weight divided by the sum
\* of the person's accumulated weights (within 1e-6).
C6_NormalizedDistributions ==
    /\ pc # "error"
    /\ pc = "done" =>
           \A x \in names :
               /\ Near(GeneSum(probabilities[x]), DOne, Tolerance)
               /\ Near(TraitSum(probabilities[x]), DOne, Tolerance)
               /\ \A g \in 0..2 :
                      Near(DMul(probabilities[x].gene[g], GeneSum(accumulated[x])),
                           accumulated[x].gene[g],
                           DMul(Tolerance, DAbs(GeneSum(accumulated[x]))))
               /\ \A t \in BOOLEAN :
                      Near(DMul(probabilities[x].trait[t], TraitSum(accumulated[x])),
                           accumulated[x].trait[t],
                           DMul(Tolerance, DAbs(TraitSum(accumulated[x]))))

\* normalize has run on a family of three with evidence
C6_Witness ==
    /\ pc = "done"
    /\ \E x \in names : HasParents(people[x])
    /\ \E x \in names : Observed(x)
    /\ \E x \in names : ~DIsZero(probabilities[x].gene[2])

\* C8: in the pedigree Family the normalized gene distribution of A and of B
\* is the gene prior 0.96, 0.03, 0.01 (within 1e-6).
C8_ParentsKeepPrior ==
    (pc = "done" /\ people = Family) =>
        \A x \in {"A", "B"} :
            \A g \in 0..2 : Near(probabilities[x].gene[g], PROBS.gene[g], Tolerance)

\* the sums of a person's buckets as floating-point additions compute them
FloatGeneSum(data) == FAdd(FAdd(data.gene[0], data.gene[1]), data.gene[2])
FloatTraitSum(data) == FAdd(data.trait[TRUE], data.trait[FALSE])

\* C9 as stated: during accumulation, for every person the sum of the three
\* gene buckets equals the sum of the two trait buckets equals the sum of all
\* weights added so far, the same for every person; the sums taken exactly,
\* or else taken in floating point (then without the sum of the weights).
C9_ExactMass ==
    Accumulating =>
        \/ \A x \in names :
               /\ GeneSum(probabilities[x]) = total
               /\ TraitSum(probabilities[x]) = total
        \/ \A x, y \in names :
               FloatGeneSum(probabilities[x]) = FloatTraitSum(probabilities[y])

\* one update call: every person's bucket of the hypothesized gene count and
\* of the hypothesized trait value becomes bucket + p, no other bucket changes
UpdateStep ==
    calls' = calls + 1 =>
        \A x \in names :
            LET g == gene_num_of(x, last'.one_gene, last'.two_genes)
                t == x \in last'.have_trait
            IN  /\ probabilities'[x].gene[g] = FAdd(probabilities[x].gene[g], last'.p)
                /\ probabilities'[x].trait[t] = FAdd(probabilities[x].trait[t], last'.p)
                /\ \A h \in (0..2) \ {g} :
                       probabilities'[x].gene[h] = probabilities[x].gene[h]
                /\ probabilities'[x].trait[~t] = probabilities[x].trait[~t]

MassWithinRounding ==
    Accumulating =>
        \A x \in names :
            /\ Near(GeneSum(probabilities[x]), total, Rounding)
            /\ Near(TraitSum(probabilities[x]), total, Rounding)

\* C9, amended: each update call adds p to exactly one gene bucket and one
\* trait bucket of every person and leaves the other buckets unchanged, and
\* during accumulation every person's gene buckets and trait buckets each sum
\* to the sum of all weights added so far up to floating-point rounding
\* (within 1e-9).
C9_MassConservation == [][UpdateStep]_vars /\ []MassWithinRounding

\* several weights have been added for several persons
C9_Witness ==
    /\ pc = "genes"
    /\ calls > 2
    /\ Cardinality(names) > 1
    /\ ~DIsZero(last.p)
    /\ \E x \in names : HasParents(people[x])

\* C7: on a malformed pedigree nothing is enumerated: no joint probability is
\* computed, no accumulator is updated, and main does not complete.
C7_MalformedRejected ==
    Malformed(people) => (calls = 0 /\ pc \notin {"genes", "done"})

----------------------------------------------------------------------------
(* Properties of pagerank.py                                               *)

\* C10: iterate_pagerank eventually returns, for every corpus.
C10_Terminates == <>(prpc = "returned")

====
